---- MODULE Spec2Model ----
(***************************************************************************)
(* Model of the Vapor-vs-Classic build benchmark:                          *)
(*   benchmark/scripts/compare-builds.ts   (one benchmark run)             *)
(*   benchmark/scripts/backfill-history.ts (replay over missing versions)  *)
(*                                                                         *)
(* Strings that the code parses or rewrites (version strings, the vue      *)
(* dependency of package.json) are sequences of one-character strings, so  *)
(* that parsing and stripping are computed, not assumed.                   *)
(*                                                                         *)
(* Fault model: a file or subprocess operation that fails raises before    *)
(* it has had its effect (ENOENT / EACCES / non-zero exit), which is the   *)
(* failure the specification names for tracked files. SpecPersist takes    *)
(* the write of the history file apart into its system calls.              *)
(***************************************************************************)
EXTENDS Integers, Sequences, FiniteSets, TLC

\* ------------------------------------------------------------------------
\* Bounds of the model
\* ------------------------------------------------------------------------

\* length of the history the persisted file may already hold at the start
MaxInitHist == 2

\* number of versions the package registry lists
MaxRegistry == 3

\* number of writes issued to the History Store in one behaviour
MaxWrites == 3

\* ------------------------------------------------------------------------
\* Version strings
\* ------------------------------------------------------------------------

V_350 == <<"3", ".", "5", ".", "0">>
V_a1 == <<"3", ".", "6", ".", "0", "-", "a", "l", "p", "h", "a", ".", "1">>
V_a2 == <<"3", ".", "6", ".", "0", "-", "a", "l", "p", "h", "a", ".", "2">>
V_a10 == <<"3", ".", "6", ".", "0", "-", "a", "l", "p", "h", "a", ".", "1", "0">>
V_b1 == <<"3", ".", "6", ".", "0", "-", "b", "e", "t", "a", ".", "1">>
V_360 == <<"3", ".", "6", ".", "0">>
V_000 == <<"0", ".", "0", ".", "0">>
Unknown == <<"u", "n", "k", "n", "o", "w", "n">>

AlphaPrefix == <<"3", ".", "6", ".", "0", "-", "a", "l", "p", "h", "a">>
TagAlpha == <<"a", "l", "p", "h", "a">>
TagBeta == <<"b", "e", "t", "a">>
TagRc == <<"r", "c">>

\* null: the prerelease of a version that has none (match[4] || null)
Null == <<>>

Digits == {"0", "1", "2", "3", "4", "5", "6", "7", "8", "9"}

DigitVal(c) ==
  CASE c = "0" -> 0 [] c = "1" -> 1 [] c = "2" -> 2 [] c = "3" -> 3
    [] c = "4" -> 4 [] c = "5" -> 5 [] c = "6" -> 6 [] c = "7" -> 7
    [] c = "8" -> 8 [] c = "9" -> 9

\* length of the run of digits of s that starts at position i: what \d+ takes
RECURSIVE DigitRun(_, _)
DigitRun(s, i) ==
  IF i <= Len(s) /\ s[i] \in Digits THEN 1 + DigitRun(s, i + 1) ELSE 0

\* parseInt(.., 10) of the n digits of s that start at position i
RECURSIVE ParseInt(_, _, _)
ParseInt(s, i, n) ==
  IF n = 0 THEN 0 ELSE ParseInt(s, i, n - 1) * 10 + DigitVal(s[i + n - 1])

DigitChar(d) ==
  CASE d = 0 -> "0" [] d = 1 -> "1" [] d = 2 -> "2" [] d = 3 -> "3"
    [] d = 4 -> "4" [] d = 5 -> "5" [] d = 6 -> "6" [] d = 7 -> "7"
    [] d = 8 -> "8" [] d = 9 -> "9"

\* the decimal digits of a natural number, as String(n) writes them
RECURSIVE ToDigits(_)
ToDigits(n) ==
  IF n < 10 THEN <<DigitChar(n)>>
  ELSE Append(ToDigits(n \div 10), DigitChar(n % 10))

\* the word w stands in s at position i
HasAt(s, i, w) ==
  /\ i + Len(w) - 1 <= Len(s)
  /\ SubSeq(s, i, i + Len(w) - 1) = w

\* String.prototype.startsWith
StartsWith(s, w) == HasAt(s, 1, w)

Sentinel ==
  [major |-> 0, minor |-> 0, patch |-> 0, prerelease |-> Null, prereleaseNum |-> 0]

\* the tag of (alpha|beta|rc) that stands at position i, or Null
TagAt(s, i) ==
  IF HasAt(s, i, TagAlpha) THEN TagAlpha
  ELSE IF HasAt(s, i, TagBeta) THEN TagBeta
  ELSE IF HasAt(s, i, TagRc) THEN TagRc
  ELSE <<>>

\* the parse without the anchors of the pattern: the first three numbers
\* that stand in version, whatever surrounds them
ParseVersionUnanchored(version) ==
  LET n1 == DigitRun(version, 1)
      d1 == 1 + n1
      n2 == DigitRun(version, d1 + 1)
  IN  IF n1 > 0 /\ d1 <= Len(version) /\ version[d1] = "." /\ n2 > 0
        THEN [major |-> ParseInt(version, 1, n1),
              minor |-> ParseInt(version, d1 + 1, n2), patch |-> 0,
              prerelease |-> Null, prereleaseNum |-> 0]
        ELSE [major |-> 0, minor |-> 0, patch |-> 0,
              prerelease |-> Null, prereleaseNum |-> 0]

\* parseVersion: /^(\d+)\.(\d+)\.(\d+)(?:-(alpha|beta|rc)\.(\d+))?$/
ParseVersion(version) ==
  LET n1 == DigitRun(version, 1)
      d1 == 1 + n1
      n2 == DigitRun(version, d1 + 1)
      d2 == d1 + 1 + n2
      n3 == DigitRun(version, d2 + 1)
      e3 == d2 + 1 + n3
      core == /\ n1 > 0 /\ d1 <= Len(version) /\ version[d1] = "."
              /\ n2 > 0 /\ d2 <= Len(version) /\ version[d2] = "."
              /\ n3 > 0
      tag == TagAt(version, e3 + 1)
      dt == e3 + 1 + Len(tag)
      n5 == DigitRun(version, dt + 1)
      pre == /\ e3 <= Len(version) /\ version[e3] = "-"
             /\ tag # <<>>
             /\ dt <= Len(version) /\ version[dt] = "."
             /\ n5 > 0 /\ dt + n5 = Len(version)
      nums == [major |-> ParseInt(version, 1, n1),
               minor |-> ParseInt(version, d1 + 1, n2),
               patch |-> ParseInt(version, d2 + 1, n3)]
  IN  IF core /\ e3 = Len(version) + 1
        THEN [major |-> nums.major, minor |-> nums.minor, patch |-> nums.patch,
              prerelease |-> Null, prereleaseNum |-> 0]
      ELSE IF core /\ pre
        THEN [major |-> nums.major, minor |-> nums.minor, patch |-> nums.patch,
              prerelease |-> tag, prereleaseNum |-> ParseInt(version, dt + 1, n5)]
      ELSE Sentinel

\* prereleaseOrder[tag] || 0
PrereleaseOrder(tag) ==
  IF tag = TagAlpha THEN 1 ELSE IF tag = TagBeta THEN 2 ELSE IF tag = TagRc THEN 3 ELSE 0

\* the comparator with a stable version greater than anything of its
\* major.minor.patch, a stable version included
CompareVersionsStableFirst(a, b) ==
  LET vA == ParseVersion(a)
      vB == ParseVersion(b)
  IN  IF vA.major # vB.major THEN vA.major - vB.major
      ELSE IF vA.minor # vB.minor THEN vA.minor - vB.minor
      ELSE IF vA.patch # vB.patch THEN vA.patch - vB.patch
      ELSE IF vA.prerelease = Null THEN 1
      ELSE IF vB.prerelease = Null THEN -1
      ELSE IF PrereleaseOrder(vA.prerelease) # PrereleaseOrder(vB.prerelease)
        THEN PrereleaseOrder(vA.prerelease) - PrereleaseOrder(vB.prerelease)
      ELSE vA.prereleaseNum - vB.prereleaseNum

\* the comparator without the order of the prerelease tags
CompareVersionsTagBlind(a, b) ==
  LET vA == ParseVersion(a)
      vB == ParseVersion(b)
  IN  IF vA.major # vB.major THEN vA.major - vB.major
      ELSE IF vA.minor # vB.minor THEN vA.minor - vB.minor
      ELSE IF vA.patch # vB.patch THEN vA.patch - vB.patch
      ELSE IF vA.prerelease = Null /\ vB.prerelease # Null THEN 1
      ELSE IF vA.prerelease # Null /\ vB.prerelease = Null THEN -1
      ELSE vA.prereleaseNum - vB.prereleaseNum

\* compareVersions: the sign carries the order, the value is a difference
CompareVersions(a, b) ==
  LET vA == ParseVersion(a)
      vB == ParseVersion(b)
  IN  IF vA.major # vB.major THEN vA.major - vB.major
      ELSE IF vA.minor # vB.minor THEN vA.minor - vB.minor
      ELSE IF vA.patch # vB.patch THEN vA.patch - vB.patch
      ELSE IF vA.prerelease = Null /\ vB.prerelease # Null THEN 1
      ELSE IF vA.prerelease # Null /\ vB.prerelease = Null THEN -1
      ELSE IF vA.prerelease # Null /\ vB.prerelease # Null
        THEN IF PrereleaseOrder(vA.prerelease) # PrereleaseOrder(vB.prerelease)
               THEN PrereleaseOrder(vA.prerelease) - PrereleaseOrder(vB.prerelease)
               ELSE vA.prereleaseNum - vB.prereleaseNum
      ELSE 0

\* ------------------------------------------------------------------------
\* Tracked source files and the classic transform
\* ------------------------------------------------------------------------

\* trackedFiles, in the order in which originals is filled and restored
TrackedFiles == <<"example/src/main.ts", "example/src/App.vue",
                  "example/src/components/HelloWorld.vue">>

TrackedSet == {TrackedFiles[i] : i \in 1..Len(TrackedFiles)}

\* File contents are sequences of tokens; " " is one whitespace character.
VaporMain == <<"createVaporApp(RootComponent).mount('#app')">>

\* the fixed template applyClassicTransforms writes to main.ts
ClassicMain == <<"createApp(App).mount('#app')">>

SfcVapor == <<"<script", " ", "setup", " ", "vapor", ">", "x">>
SfcPlain == <<"<script", " ", "setup", ">", "x">>
SfcNoScript == <<"<template", ">", "x">>

\* A byte that is not valid UTF-8 on its own (0xE9, the Latin-1 e-acute),
\* and U+FFFD, which the decoder puts in the place of such a byte.
InvalidByte == "0xE9"
ReplacementChar == "U+FFFD"

SfcLatin1 == <<"<script", " ", "setup", ">", "0xE9">>

\* read(relPath) = readFileSync(path, 'utf8'): the bytes decoded as UTF-8,
\* each invalid byte replaced by U+FFFD. write(relPath, content) encodes
\* the string as UTF-8, which gives back the bytes of every decoded
\* character and the three bytes of U+FFFD for a replaced one.
Read(bytes) ==
  [i \in 1..Len(bytes) |-> IF bytes[i] = InvalidByte THEN ReplacementChar ELSE bytes[i]]

\* number of whitespace tokens of s from position i on: what \s+ takes
RECURSIVE WsRun(_, _)
WsRun(s, i) ==
  IF i <= Len(s) /\ s[i] = " " THEN 1 + WsRun(s, i + 1) ELSE 0

Min(S) == CHOOSE x \in S : \A y \in S : x <= y

\* positions at which /<script\s+setup[^>]*?>/ can start
TagStarts(s) ==
  {i \in 1..Len(s) :
     /\ s[i] = "<script"
     /\ WsRun(s, i + 1) > 0
     /\ i + 1 + WsRun(s, i + 1) <= Len(s)
     /\ s[i + 1 + WsRun(s, i + 1)] = "setup"
     /\ \E k \in (i + 2 + WsRun(s, i + 1))..Len(s) : s[k] = ">"}

\* positions of the tag m at which /\s+vapor(?=\s|>)/ can start
AttrStarts(m) ==
  {p \in 1..Len(m) :
     /\ WsRun(m, p) > 0
     /\ p + WsRun(m, p) + 1 <= Len(m)
     /\ m[p + WsRun(m, p)] = "vapor"
     /\ m[p + WsRun(m, p) + 1] \in {" ", ">"}}

\* match.replace(/\s+vapor(?=\s|>)/, ''): the first occurrence only
StripTag(m) ==
  IF AttrStarts(m) = {} THEN m
  ELSE LET p == Min(AttrStarts(m))
       IN  SubSeq(m, 1, p - 1) \o SubSeq(m, p + WsRun(m, p) + 1, Len(m))

\* stripVaporAttribute: the first <script setup ...> tag only
StripVaporAttribute(source) ==
  IF TagStarts(source) = {} THEN source
  ELSE LET i == Min(TagStarts(source))
           j == i + 1 + WsRun(source, i + 1)
           k == Min({x \in (j + 1)..Len(source) : source[x] = ">"})
       IN  SubSeq(source, 1, i - 1) \o StripTag(SubSeq(source, i, k))
             \o SubSeq(source, k + 1, Len(source))

\* the content the classic transform writes to tracked file number n,
\* given the content cur it reads there
ClassicContent(n, cur) ==
  IF n = 1 THEN ClassicMain ELSE StripVaporAttribute(Read(cur))

\* ------------------------------------------------------------------------
\* package.json and the history file
\* ------------------------------------------------------------------------

\* package.json that cannot be read or has no dependencies.vue
NoPackage == <<"?">>

\* getVueVersion: dependencies.vue with every ^ and ~ removed, or 'unknown'
GetVueVersion(pkg) ==
  IF pkg = NoPackage THEN Unknown
  ELSE SelectSeq(pkg, LAMBDA c : c \notin {"^", "~"})

\* what `npm install vue@version` leaves in dependencies.vue
SavedDependency(version) == <<"^">> \o version

\* The persisted history file: absent, text that JSON.parse rejects
\* ("unparsable"), JSON without a benchmarks list ("malformed"), or
\* { benchmarks: [...] } ("json").
FileAbsent == [kind |-> "absent", benchmarks |-> <<>>]
FileUnparsable == [kind |-> "unparsable", benchmarks |-> <<>>]
FileMalformed == [kind |-> "malformed", benchmarks |-> <<>>]
FileJson(list) == [kind |-> "json", benchmarks |-> list]

\* readHistory: the parsed value, or { benchmarks: [] } when reading or
\* parsing throws; hasList is whether the value has a benchmarks array
ReadHistory(file) ==
  IF file.kind = "json" THEN [hasList |-> TRUE, benchmarks |-> file.benchmarks]
  ELSE IF file.kind = "malformed" THEN [hasList |-> FALSE, benchmarks |-> <<>>]
  ELSE [hasList |-> TRUE, benchmarks |-> <<>>]

FilterNothing(benchmarks, entry) == benchmarks

FilterSame(benchmarks, entry) ==
  SelectSeq(benchmarks, LAMBDA b : b.vueVersion = entry.vueVersion)

\* history.benchmarks.filter(b => b.vueVersion !== entry.vueVersion)
FilterOthers(benchmarks, entry) ==
  SelectSeq(benchmarks, LAMBDA b : b.vueVersion # entry.vueVersion)

\* place of e in the sorted list: behind every element that is not greater
RECURSIVE InsertSorted(_, _)
InsertSorted(sorted, e) ==
  IF sorted = <<>> THEN <<e>>
  ELSE IF CompareVersions(sorted[Len(sorted)].vueVersion, e.vueVersion) <= 0
    THEN Append(sorted, e)
  ELSE Append(InsertSorted(SubSeq(sorted, 1, Len(sorted) - 1), e), sorted[Len(sorted)])

SortBenchmarksOmitted(benchmarks) == benchmarks

\* benchmarks.sort((a, b) => compareVersions(a.vueVersion, b.vueVersion)):
\* a stable sort
RECURSIVE SortBenchmarks(_)
SortBenchmarks(benchmarks) ==
  IF benchmarks = <<>> THEN <<>>
  ELSE InsertSorted(SortBenchmarks(SubSeq(benchmarks, 1, Len(benchmarks) - 1)),
                    benchmarks[Len(benchmarks)])

\* the list writeHistory persists: filter, push, sort
NewBenchmarks(benchmarks, entry) ==
  SortBenchmarks(Append(FilterOthers(benchmarks, entry), entry))

\* the entry with the delta taken as classic minus vapor
MakeEntryClassicMinusVapor(timestamp, inspect, vapor, classic, version) ==
  [timestamp |-> timestamp,
   mode |-> IF inspect THEN "inspect" ELSE "benchmark",
   vapor |-> vapor,
   classic |-> classic,
   delta |-> [raw |-> classic.raw - vapor.raw,
              gzipped |-> classic.gzipped - vapor.gzipped],
   vueVersion |-> version]

\* the entry writeReport constructs
MakeEntry(timestamp, inspect, vapor, classic, version) ==
  [timestamp |-> timestamp,
   mode |-> IF inspect THEN "inspect" ELSE "benchmark",
   vapor |-> vapor,
   classic |-> classic,
   delta |-> [raw |-> vapor.raw - classic.raw,
              gzipped |-> vapor.gzipped - classic.gzipped],
   vueVersion |-> version]

\* ------------------------------------------------------------------------
\* State
\* ------------------------------------------------------------------------

VARIABLES
  \* one run of compare-builds.ts
  pc,              \* position of the run in the script
  isInspectMode,   \* process.argv.includes('--inspect')
  files,           \* content of each tracked file on disk
  originals,       \* the contents captured when the script was loaded
  classicApplied,  \* the flag the finally block tests
  dist,            \* the build-output directory
  artifacts,       \* benchmark/artifacts/vapor and .../classic
  measured,        \* the sizes measured, <<>> before the measurement
  reportFile,      \* benchmark/artifacts/report.md, <<>> while absent
  err,             \* the error that is propagating, "none" without one
  exitCode,        \* exit code of the process, -1 while it runs
  steps,           \* history variable: the operations of this run, in order
  \* the persisted environment
  pkgVue,          \* dependencies.vue of package.json
  historyFile,     \* benchmark/results/build-history.json
  startHistory,    \* history variable: the history file when the process started
  written,         \* history variable: the entries persisted so far, oldest first
  now,             \* the clock that stamps entries
  \* one run of backfill-history.ts
  bpc,             \* position of the backfill in its main()
  registry,        \* what `npm info vue versions` lists
  allVersions, existingVersions, missingVersions,
  idx,             \* the loop counter i
  results,         \* results[]: { version, success }
  installs,        \* history variable: every install attempted, in order
  bexit,           \* exit code of the backfill, -1 while it runs
  \* one function called on its own
  startFiles,      \* history variable: the tracked files on disk at startup
  frame,           \* the call in progress: its arguments and locals, <<>> without one
  returned         \* what the call returned, <<>> before it returns

runVars == <<pc, isInspectMode, files, originals, classicApplied, dist, artifacts,
             measured, reportFile, err, exitCode, steps>>
envVars == <<pkgVue, historyFile, startHistory, written, now>>
backVars == <<bpc, registry, allVersions, existingVersions, missingVersions, idx,
              results, installs, bexit>>
callVars == <<startFiles, frame, returned>>
vars == <<runVars, envVars, backVars, callVars>>

\* ------------------------------------------------------------------------
\* Values the environment can hold when a process starts
\* ------------------------------------------------------------------------

NoSources == [f \in TrackedSet |-> <<>>]
DirAbsent == [kind |-> "absent", sources |-> NoSources, script |-> "none"]
DirBuilt(sources, script) == [kind |-> "built", sources |-> sources, script |-> script]

\* sizes the measurement of a captured build can yield
Size(raw, gzipped) == [raw |-> raw, gzipped |-> gzipped]
SmallerVapor == [vapor |-> Size(58000, 21000), classic |-> Size(65000, 26000)]
LargerVapor == [vapor |-> Size(65000, 26000), classic |-> Size(58000, 21000)]
Measurements == {SmallerVapor, LargerVapor}

InitFiles ==
  {f \in [TrackedSet -> {VaporMain, ClassicMain, SfcVapor, SfcPlain, SfcNoScript,
                         SfcLatin1}] :
     /\ f[TrackedFiles[1]] \in {VaporMain, ClassicMain}
     /\ f[TrackedFiles[2]] \in {SfcVapor, SfcPlain, SfcLatin1}
     /\ f[TrackedFiles[3]] \in {SfcVapor, SfcNoScript}}

\* the artifacts an earlier run left under .benchmarks: builds of an earlier
\* state of the sources
EarlierSources == [f \in TrackedSet |-> <<"earlier revision">>]
EarlierArtifact == DirBuilt(EarlierSources, "build:ship")
InitArtifacts ==
  {[vapor |-> DirAbsent, classic |-> DirAbsent],
   [vapor |-> EarlierArtifact, classic |-> EarlierArtifact]}

InitPackages == {SavedDependency(V_a2), V_a10, NoPackage}

\* versions a history file may hold before the first write of a behaviour
HistoryVersions == {V_a2, V_a10, V_360, Unknown}

\* the entry an earlier run persisted for version v
OldEntry(v) == MakeEntry(0, FALSE, Size(58000, 21000), Size(65000, 26000), v)

\* lists of at most MaxInitHist old entries, one per version at most, in any
\* order (the file is plain JSON kept under version control)
InitLists ==
  UNION {{[i \in 1..n |-> OldEntry(vs[i])] :
            vs \in {w \in [1..n -> HistoryVersions] :
                      \A i, j \in 1..n : i # j => w[i] # w[j]}} :
         n \in 0..MaxInitHist}

InitHistoryFiles ==
  {FileAbsent, FileUnparsable, FileMalformed} \cup {FileJson(l) : l \in InitLists}

Step(op, at, ok) == [op |-> op, at |-> at, ok |-> ok]

BackfillIdle ==
  /\ bpc = "off"
  /\ registry = <<>>
  /\ allVersions = <<>>
  /\ existingVersions = {}
  /\ missingVersions = <<>>
  /\ idx = 0
  /\ results = <<>>
  /\ installs = <<>>
  /\ bexit = -1

\* no function is called on its own
CallIdle ==
  /\ startFiles = files
  /\ frame = <<>>
  /\ returned = <<>>

\* A benchmark process has been started: the script is loaded, originals
\* is filled from the tracked files, the try block is about to begin.
Init ==
  /\ pc = "cleanVapor"
  /\ isInspectMode \in BOOLEAN
  /\ files \in InitFiles
  /\ originals = [f \in TrackedSet |-> Read(files[f])]
  /\ classicApplied = FALSE
  /\ dist \in {DirAbsent, DirBuilt(files, "build")}
  /\ artifacts \in InitArtifacts
  /\ measured = <<>>
  /\ reportFile = <<>>
  /\ err = "none"
  /\ exitCode = -1
  /\ steps = <<>>
  /\ pkgVue \in InitPackages
  /\ historyFile \in InitHistoryFiles
  /\ startHistory = historyFile
  /\ written = ReadHistory(historyFile).benchmarks
  /\ now = 1
  /\ BackfillIdle
  /\ CallIdle

\* ------------------------------------------------------------------------
\* compare-builds.ts: the run
\* ------------------------------------------------------------------------

BuildScript == IF isInspectMode THEN "build" ELSE "build:ship"

\* an error leaves the try block: control passes to the finally block
Throw(e) ==
  /\ err' = e
  /\ pc' = "finally"

\* the position that follows each position of the script
NextPc(at) ==
  CASE at = "cleanVapor" -> "buildVapor"
    [] at = "buildVapor" -> "captureVapor"
    [] at = "captureVapor" -> "transform"
    [] at = "cleanClassic" -> "buildClassic"
    [] at = "buildClassic" -> "captureClassic"
    [] at = "captureClassic" -> "measure"
    [] at = "cleanFinal" -> "buildFinal"
    [] at = "buildFinal" -> "exit"

\* cleanDist: rmSync(dist, { recursive, force }) succeeds on an absent directory
CleanDist ==
  /\ pc \in {"cleanVapor", "cleanClassic", "cleanFinal"}
  /\ dist' = DirAbsent
  /\ pc' = NextPc(pc)
  /\ steps' = Append(steps, Step("cleanDist", pc, TRUE))
  /\ UNCHANGED <<isInspectMode, files, originals, classicApplied, artifacts, measured,
                 reportFile, err, exitCode>>
  /\ UNCHANGED <<envVars, backVars, callVars>>

\* runBuild that does not look at the exit status of the build
RunBuildUnchecked ==
  /\ pc \in {"buildVapor", "buildClassic", "buildFinal"}
  /\ \/ /\ dist' = DirBuilt(files, BuildScript)
        /\ steps' = Append(steps, Step("runBuild", pc, TRUE))
     \/ /\ steps' = Append(steps, Step("runBuild", pc, FALSE))
        /\ UNCHANGED dist
  /\ pc' = NextPc(pc)
  /\ UNCHANGED <<isInspectMode, files, originals, classicApplied, artifacts, measured,
                 reportFile, err, exitCode>>
  /\ UNCHANGED <<envVars, backVars, callVars>>

\* runBuild: npm run build | build:ship; a non-zero exit throws
RunBuild ==
  /\ pc \in {"buildVapor", "buildClassic", "buildFinal"}
  /\ \/ /\ dist' = DirBuilt(files, BuildScript)
        /\ pc' = NextPc(pc)
        /\ steps' = Append(steps, Step("runBuild", pc, TRUE))
        /\ UNCHANGED err
     \/ /\ steps' = Append(steps, Step("runBuild", pc, FALSE))
        /\ IF pc = "buildFinal"
             THEN err' = "build" /\ pc' = "exit"
             ELSE Throw("build")
        /\ UNCHANGED dist
  /\ UNCHANGED <<isInspectMode, files, originals, classicApplied, artifacts, measured,
                 reportFile, exitCode>>
  /\ UNCHANGED <<envVars, backVars, callVars>>

CaptureLabel(at) == IF at = "captureVapor" THEN "vapor" ELSE "classic"

\* captureOutput with cpSync in place of renameSync: dist stays where it is
CaptureOutputCopy ==
  /\ pc \in {"captureVapor", "captureClassic"}
  /\ \/ /\ artifacts' = [artifacts EXCEPT ![CaptureLabel(pc)] = dist]
        /\ pc' = NextPc(pc)
        /\ steps' = Append(steps, Step("captureOutput", pc, TRUE))
        /\ UNCHANGED <<err, dist>>
     \/ /\ steps' = Append(steps, Step("captureOutput", pc, FALSE))
        /\ Throw("capture")
        /\ artifacts' \in {artifacts, [artifacts EXCEPT ![CaptureLabel(pc)] = DirAbsent]}
        /\ UNCHANGED dist
  /\ UNCHANGED <<isInspectMode, files, originals, classicApplied, measured,
                 reportFile, exitCode>>
  /\ UNCHANGED <<envVars, backVars, callVars>>

\* captureOutput: remove the artifact at the label, then rename dist to it.
\* mkdirSync or rmSync can raise with the artifact still there, renameSync
\* raises with the artifact already removed.
CaptureOutput ==
  /\ pc \in {"captureVapor", "captureClassic"}
  /\ \/ /\ artifacts' = [artifacts EXCEPT ![CaptureLabel(pc)] = dist]
        /\ dist' = DirAbsent
        /\ pc' = NextPc(pc)
        /\ steps' = Append(steps, Step("captureOutput", pc, TRUE))
        /\ UNCHANGED err
     \/ /\ steps' = Append(steps, Step("captureOutput", pc, FALSE))
        /\ Throw("capture")
        /\ artifacts' \in {artifacts, [artifacts EXCEPT ![CaptureLabel(pc)] = DirAbsent]}
        /\ UNCHANGED dist
  /\ UNCHANGED <<isInspectMode, files, originals, classicApplied, measured,
                 reportFile, exitCode>>
  /\ UNCHANGED <<envVars, backVars, callVars>>

\* the tracked files after the classic transform has written the first n
RECURSIVE Transformed(_, _)
Transformed(fs, n) ==
  IF n = 0 THEN fs
  ELSE LET done == Transformed(fs, n - 1)
       IN  [done EXCEPT ![TrackedFiles[n]] = ClassicContent(n, done[TrackedFiles[n]])]

\* applyClassicTransforms, then classicApplied = true. The function writes
\* the tracked files one after the other; a read or write that fails at
\* file k throws with the files before k already rewritten.
ApplyClassicTransforms ==
  /\ pc = "transform"
  /\ \/ /\ files' = Transformed(files, Len(TrackedFiles))
        /\ classicApplied' = TRUE
        /\ pc' = "cleanClassic"
        /\ steps' = Append(steps, Step("applyClassicTransforms", pc, TRUE))
        /\ UNCHANGED err
     \/ \E k \in 1..Len(TrackedFiles) :
          /\ files' = Transformed(files, k - 1)
          /\ steps' = Append(steps, Step("applyClassicTransforms", pc, FALSE))
          /\ Throw("transform")
          /\ UNCHANGED classicApplied
  /\ UNCHANGED <<isInspectMode, originals, dist, artifacts, measured, reportFile, exitCode>>
  /\ UNCHANGED <<envVars, backVars, callVars>>

\* directorySize and gzipDirectorySize of both artifacts
Measure ==
  /\ pc = "measure"
  /\ \/ \E m \in Measurements :
          /\ measured' = <<m>>
          /\ pc' = "writeReport"
          /\ steps' = Append(steps, Step("measure", pc, TRUE))
          /\ UNCHANGED err
     \/ /\ steps' = Append(steps, Step("measure", pc, FALSE))
        /\ Throw("measure")
        /\ UNCHANGED measured
  /\ UNCHANGED <<isInspectMode, files, originals, classicApplied, dist, artifacts,
                 reportFile, exitCode>>
  /\ UNCHANGED <<envVars, backVars, callVars>>

\* writeHistory(entry): what it can leave in the file and what it raises.
\* history.benchmarks.filter throws a TypeError when the parsed value has
\* no benchmarks list; writeFileSync can be refused.
HistoryWriteOutcomes(file, entry) ==
  LET history == ReadHistory(file)
  IN  IF ~history.hasList
        THEN {[file |-> file, raised |-> "TypeError"]}
        ELSE {[file |-> FileJson(NewBenchmarks(history.benchmarks, entry)),
               raised |-> "none"],
              [file |-> file, raised |-> "historyWrite"]}

\* Byte threshold for determining trend direction in reports
TREND_THRESHOLD_BYTES == 100

\* Number of recent benchmarks to display in history table
HISTORY_DISPLAY_LIMIT == 10

Abs(n) == IF n < 0 THEN -n ELSE n

\* (bytes / 1024).toFixed(1): the number of tenths nearest to bytes / 1024,
\* the larger one of two that are equally near; the sign is put in front
ToFixed1(bytes) ==
  LET tenths == (20 * Abs(bytes) + 1024) \div 2048
  IN  (IF bytes < 0 THEN <<"-">> ELSE <<>>)
        \o ToDigits(tenths \div 10) \o <<".">> \o <<DigitChar(tenths % 10)>>

\* formatKB: `${(bytes / 1024).toFixed(1)} KB`
FormatKB(bytes) == ToFixed1(bytes) \o <<" KB">>

\* the delta label with the sign of a negative delta kept
DeltaLabelSigned(delta) ==
  IF delta = 0 THEN <<"0 KB (equal)">>
  ELSE (IF delta > 0 THEN <<"+">> ELSE <<>>) \o FormatKB(delta)
         \o <<" (", IF delta > 0 THEN "Vapor larger" ELSE "Vapor smaller", ")">>

\* deltaLabel of generateMarkdownReport
DeltaLabel(delta) ==
  IF delta = 0 THEN <<"0 KB (equal)">>
  ELSE (IF delta > 0 THEN <<"+">> ELSE <<>>) \o FormatKB(Abs(delta))
         \o <<" (", IF delta > 0 THEN "Vapor larger" ELSE "Vapor smaller", ")">>

\* Array.prototype.slice(-n): the last n elements, all of them if fewer
SliceLast(list, n) ==
  IF Len(list) <= n THEN list ELSE SubSeq(list, Len(list) - n + 1, Len(list))

\* Array.prototype.reverse
Reverse(list) == [i \in 1..Len(list) |-> list[Len(list) - i + 1]]

\* the first entries of the history in place of the last
RecentBenchmarksOldest(benchmarks) ==
  Reverse(SubSeq(SelectSeq(benchmarks, LAMBDA b : b.mode = "benchmark"), 1,
                 IF Len(SelectSeq(benchmarks, LAMBDA b : b.mode = "benchmark"))
                      <= HISTORY_DISPLAY_LIMIT
                   THEN Len(SelectSeq(benchmarks, LAMBDA b : b.mode = "benchmark"))
                   ELSE HISTORY_DISPLAY_LIMIT))

\* recentBenchmarks: filter(mode === 'benchmark').slice(-LIMIT).reverse()
RecentBenchmarks(benchmarks) ==
  Reverse(SliceLast(SelectSeq(benchmarks, LAMBDA b : b.mode = "benchmark"),
                    HISTORY_DISPLAY_LIMIT))

\* the trend with a change of exactly the threshold counted as a change
TrendInclusive(recent, i) ==
  IF i < Len(recent)
    THEN LET change == recent[i].vapor.gzipped - recent[i + 1].vapor.gzipped
         IN  IF change <= -TREND_THRESHOLD_BYTES THEN "Improving"
             ELSE IF change >= TREND_THRESHOLD_BYTES THEN "Regressing"
             ELSE "Stable"
    ELSE "-"

\* the trend of row i of recentBenchmarks (i counts from 1), "-" for the
\* row that has no row behind it
Trend(recent, i) ==
  IF i < Len(recent)
    THEN LET change == recent[i].vapor.gzipped - recent[i + 1].vapor.gzipped
         IN  IF change < -TREND_THRESHOLD_BYTES THEN "Improving"
             ELSE IF change > TREND_THRESHOLD_BYTES THEN "Regressing"
             ELSE "Stable"
    ELSE "-"

\* new Date(timestamp).toLocaleDateString(): the date of the timestamp
LocaleDate(timestamp) == <<"date", timestamp>>

\* new Date(timestamp).toLocaleString(): the date and time of the timestamp
LocaleString(timestamp) == <<"date and time", timestamp>>

\* one row of the history table
HistoryRow(entry, trend) ==
  [date |-> LocaleDate(entry.timestamp),
   vueVersion |-> entry.vueVersion,
   vaporGzip |-> FormatKB(entry.vapor.gzipped),
   classicGzip |-> FormatKB(entry.classic.gzipped),
   deltaStr |-> IF entry.delta.gzipped > 0
                  THEN <<"+">> \o FormatKB(entry.delta.gzipped)
                  ELSE FormatKB(entry.delta.gzipped),
   trend |-> trend]

\* generateMarkdownReport: the parts of the report that depend on its
\* arguments (the compression ratios of the two builds are left out)
GenerateMarkdownReport(current, benchmarks) ==
  LET showHistory == current.mode # "inspect" /\ Len(benchmarks) > 0
      recent == IF showHistory THEN RecentBenchmarks(benchmarks) ELSE <<>>
  IN  [generated |-> LocaleString(current.timestamp),
       vueVersion |-> current.vueVersion,
       mode |-> IF current.mode = "inspect" THEN "Inspection (readable)"
                ELSE "Production benchmark",
       vapor |-> [raw |-> FormatKB(current.vapor.raw),
                  gzipped |-> FormatKB(current.vapor.gzipped)],
       classic |-> [raw |-> FormatKB(current.classic.raw),
                    gzipped |-> FormatKB(current.classic.gzipped)],
       deltaLabel |-> DeltaLabel(current.delta.gzipped),
       recentHistory |-> showHistory,
       rows |-> [i \in 1..Len(recent) |-> HistoryRow(recent[i], Trend(recent, i))]]

\* generateMarkdownReport reads history.benchmarks.length only when
\* current.mode is not 'inspect'
RenderRaises(current, history) ==
  current.mode # "inspect" /\ ~history.hasList

\* what the report is generated from: the current entry and the history read
ReportOf(current, history) ==
  <<GenerateMarkdownReport(current, history.benchmarks)>>

\* the entry of this run
CurrentEntry ==
  MakeEntry(now, isInspectMode, measured[1].vapor, measured[1].classic,
            GetVueVersion(pkgVue))

\* generate the report from readHistory() and write report.md
SaveReport(current) ==
  \/ /\ RenderRaises(current, ReadHistory(historyFile'))
     /\ Throw("TypeError")
     /\ UNCHANGED reportFile
  \/ /\ ~RenderRaises(current, ReadHistory(historyFile'))
     /\ \/ /\ reportFile' = ReportOf(current, ReadHistory(historyFile'))
           /\ pc' = "finally"
           /\ UNCHANGED err
        \/ /\ Throw("reportWrite")
           /\ UNCHANGED reportFile

\* if (!isInspectMode) writeHistory(entry)
PersistsAlways == TRUE

PersistsHistory == ~isInspectMode

\* writeReport: construct the entry, writeHistory unless inspecting, then
\* generate and write the report
WriteReport ==
  /\ pc = "writeReport"
  /\ \/ /\ ~PersistsHistory
        /\ UNCHANGED <<historyFile, written>>
        /\ steps' = Append(steps, Step("writeReport", pc, TRUE))
        /\ SaveReport(CurrentEntry)
     \/ /\ PersistsHistory
        /\ \E o \in HistoryWriteOutcomes(historyFile, CurrentEntry) :
             /\ historyFile' = o.file
             /\ IF o.raised = "none"
                  THEN /\ written' = Append(written, CurrentEntry)
                       /\ steps' = Append(steps, Step("writeHistory", pc, TRUE))
                       /\ SaveReport(CurrentEntry)
                  ELSE /\ steps' = Append(steps, Step("writeHistory", pc, FALSE))
                       /\ Throw(o.raised)
                       /\ UNCHANGED <<written, reportFile>>
  /\ UNCHANGED <<isInspectMode, files, originals, classicApplied, dist, artifacts,
                 measured, exitCode>>
  /\ UNCHANGED <<pkgVue, startHistory, now, backVars, callVars>>

FinallySkipsCleanup ==
  /\ pc = "finally"
  /\ pc' = "exit"
  /\ UNCHANGED <<isInspectMode, files, originals, classicApplied, dist, artifacts,
                 measured, reportFile, err, exitCode, steps>>
  /\ UNCHANGED <<envVars, backVars, callVars>>

\* finally { if (classicApplied) { restoreSources(); cleanDist(); runBuild() } }
Finally ==
  /\ pc = "finally"
  /\ pc' = IF classicApplied THEN "restore" ELSE "exit"
  /\ UNCHANGED <<isInspectMode, files, originals, classicApplied, dist, artifacts,
                 measured, reportFile, err, exitCode, steps>>
  /\ UNCHANGED <<envVars, backVars, callVars>>

\* the tracked files after restoreSources has written back the first n
RECURSIVE Restored(_, _, _)
Restored(fs, orig, n) ==
  IF n = 0 THEN fs
  ELSE [Restored(fs, orig, n - 1) EXCEPT ![TrackedFiles[n]] = orig[TrackedFiles[n]]]

\* restoreSources: write every original back, in the order of the map; a
\* write refused at file k throws out of the finally block
RestoreSources ==
  /\ pc = "restore"
  /\ \/ /\ files' = Restored(files, originals, Len(TrackedFiles))
        /\ pc' = "cleanFinal"
        /\ steps' = Append(steps, Step("restoreSources", pc, TRUE))
        /\ UNCHANGED err
     \/ \E k \in 1..Len(TrackedFiles) :
          /\ files' = Restored(files, originals, k - 1)
          /\ steps' = Append(steps, Step("restoreSources", pc, FALSE))
          /\ err' = "restore"
          /\ pc' = "exit"
  /\ UNCHANGED <<isInspectMode, originals, classicApplied, dist, artifacts, measured,
                 reportFile, exitCode>>
  /\ UNCHANGED <<envVars, backVars, callVars>>

\* the process ends: an uncaught error makes the exit code non-zero
Exit ==
  /\ pc = "exit"
  /\ exitCode' = IF err = "none" THEN 0 ELSE 1
  /\ pc' = "exited"
  /\ UNCHANGED <<isInspectMode, files, originals, classicApplied, dist, artifacts,
                 measured, reportFile, err, steps>>
  /\ UNCHANGED <<envVars, backVars, callVars>>

Next ==
  \/ CleanDist
  \/ RunBuild
  \/ CaptureOutput
  \/ ApplyClassicTransforms
  \/ Measure
  \/ WriteReport
  \/ Finally
  \/ RestoreSources
  \/ Exit

Spec == Init /\ [][Next]_vars

\* ------------------------------------------------------------------------
\* Properties of one benchmark run
\* ------------------------------------------------------------------------

\* the step op at position at of the script was attempted and raised
Failed(op, at) ==
  \E i \in 1..Len(steps) : steps[i] = Step(op, at, FALSE)

Succeeded(op) ==
  \E i \in 1..Len(steps) : steps[i].op = op /\ steps[i].ok

\* the last n steps of the run
LastSteps(n) ==
  IF Len(steps) < n THEN <<>> ELSE SubSeq(steps, Len(steps) - n + 1, Len(steps))

\* C1: when the run has ended, by normal completion or by an error raised
\* in the transform, a build, a capture, the measurement, the history write
\* or the report write, every tracked file reads as the content captured
\* at startup (a restore that is itself refused is not among these paths).
C1_TrackedFilesRestoredAtExit ==
  (pc = "exited" /\ ~Failed("restoreSources", "restore")) =>
    \A f \in TrackedSet : Read(files[f]) = originals[f]

C6_InspectNeverPersists ==
  /\ isInspectMode =>
       /\ historyFile = startHistory
       /\ ~Succeeded("writeHistory")
  /\ (~isInspectMode /\ pc = "exited" /\ exitCode = 0) =>
       /\ Cardinality({i \in 1..Len(steps) : steps[i].op = "writeHistory"}) = 1
       /\ Len(written) = Len(ReadHistory(startHistory).benchmarks) + 1
       /\ historyFile.kind = "json"
       /\ \E i \in 1..Len(historyFile.benchmarks) :
            historyFile.benchmarks[i] = written[Len(written)]
       /\ written[Len(written)].mode = "benchmark"

\* an inspect-mode run has succeeded over a history file that holds entries
C6_Witness ==
  /\ isInspectMode
  /\ pc = "exited"
  /\ exitCode = 0
  /\ reportFile # <<>>
  /\ startHistory.kind = "json"
  /\ Len(startHistory.benchmarks) = 2
  /\ CompareVersions(startHistory.benchmarks[1].vueVersion,
                     startHistory.benchmarks[2].vueVersion) > 0

\* C7: whatever the history file holds that is not a well-formed history
\* (absent, unparsable, or JSON without a benchmarks list), the write of a
\* run does not raise on reading it, and after the write the history holds
\* exactly the written entry.
C7_HistoryReadErrorsNeverSurface ==
  startHistory.kind # "json" =>
    /\ err # "TypeError"
    /\ Succeeded("writeHistory") => historyFile = FileJson(<<written[Len(written)]>>)

\* ------------------------------------------------------------------------
\* The History Store alone: a sequence of writeHistory calls
\* ------------------------------------------------------------------------

\* no benchmark process is running
RunIdle ==
  /\ pc = "off"
  /\ isInspectMode = FALSE
  /\ files \in {f \in InitFiles : f[TrackedFiles[1]] = VaporMain
                                   /\ f[TrackedFiles[2]] = SfcVapor
                                   /\ f[TrackedFiles[3]] = SfcVapor}
  /\ originals = [f \in TrackedSet |-> Read(files[f])]
  /\ classicApplied = FALSE
  /\ dist = DirAbsent
  /\ artifacts = [vapor |-> DirAbsent, classic |-> DirAbsent]
  /\ measured = <<>>
  /\ reportFile = <<>>
  /\ err = "none"
  /\ exitCode = -1
  /\ steps = <<>>

InitHistory ==
  /\ RunIdle
  /\ BackfillIdle
  /\ CallIdle
  /\ pkgVue = NoPackage
  /\ historyFile \in InitHistoryFiles
  /\ startHistory = historyFile
  /\ written = ReadHistory(historyFile).benchmarks
  /\ now = 1

\* versions given to the writes
WriteVersions == {V_a2, V_a10, V_b1, V_360, Unknown}

\* one call writeHistory(entry), for any benchmark entry stamped now
HistoryStoreWrite ==
  /\ pc = "off"
  /\ bpc = "off"
  /\ now <= MaxWrites
  /\ \E v \in WriteVersions :
       LET entry == MakeEntry(now, FALSE, SmallerVapor.vapor, SmallerVapor.classic, v)
       IN  \E o \in HistoryWriteOutcomes(historyFile, entry) :
             /\ historyFile' = o.file
             /\ err' = o.raised
             /\ steps' = Append(steps, Step("writeHistory", historyFile.kind,
                                            o.raised = "none"))
             /\ written' = IF o.raised = "none" THEN Append(written, entry) ELSE written
  /\ now' = now + 1
  /\ UNCHANGED <<pc, isInspectMode, files, originals, classicApplied, dist, artifacts,
                 measured, reportFile, exitCode>>
  /\ UNCHANGED <<pkgVue, startHistory, backVars, callVars>>

NextHistory == HistoryStoreWrite

SpecHistory == InitHistory /\ [][NextHistory]_vars

\* the collection a read of the persisted file yields
Persisted == ReadHistory(historyFile).benchmarks

VersionsOf(list) == {list[i].vueVersion : i \in 1..Len(list)}

EntriesOf(list) == {list[i] : i \in 1..Len(list)}

\* the entry most recently written for version v
LatestWritten(v) ==
  written[CHOOSE i \in 1..Len(written) :
            /\ written[i].vueVersion = v
            /\ \A j \in (i + 1)..Len(written) : written[j].vueVersion # v]

C4_SortedAfterWrite ==
  Succeeded("writeHistory") =>
    \A i \in 1..(Len(Persisted) - 1) :
      CompareVersions(Persisted[i].vueVersion, Persisted[i + 1].vueVersion) <= 0

\* an older version was written after a newer one, into a file whose
\* entries were out of order
C4_Witness ==
  /\ startHistory.kind = "json"
  /\ Len(startHistory.benchmarks) = 2
  /\ CompareVersions(startHistory.benchmarks[1].vueVersion,
                     startHistory.benchmarks[2].vueVersion) > 0
  /\ Len(written) = 4
  /\ CompareVersions(written[3].vueVersion, written[4].vueVersion) > 0
  /\ Len(Persisted) = 4

\* a write of entry succeeded in this step
WroteEntry(entry) ==
  /\ Len(written') = Len(written) + 1
  /\ written'[Len(written')] = entry

RECURSIVE InsertVersion(_, _)
InsertVersion(sorted, v) ==
  IF sorted = <<>> THEN <<v>>
  ELSE IF CompareVersions(sorted[Len(sorted)], v) <= 0 THEN Append(sorted, v)
  ELSE Append(InsertVersion(SubSeq(sorted, 1, Len(sorted) - 1), v), sorted[Len(sorted)])

SortVersionsOmitted(versions) == versions

\* versions.sort(compareVersions)
RECURSIVE SortVersions(_)
SortVersions(versions) ==
  IF versions = <<>> THEN <<>>
  ELSE InsertVersion(SortVersions(SubSeq(versions, 1, Len(versions) - 1)),
                     versions[Len(versions)])

\* getAlphaVersionsFromNpm: filter by the prefix '3.6.0-alpha', then sort
AlphaVersions(listed) ==
  SortVersions(SelectSeq(listed, LAMBDA v : StartsWith(v, AlphaPrefix)))

\* getExistingVersions: new Set(history.benchmarks.map(b => b.vueVersion))
ExistingVersions(file) ==
  {ReadHistory(file).benchmarks[i].vueVersion :
     i \in 1..Len(ReadHistory(file).benchmarks)}

\* allVersions.filter(v => !existingVersions.has(v))
MissingVersions(all, existing) ==
  SelectSeq(all, LAMBDA v : v \notin existing)

LatestOfMissing == missingVersions[Len(missingVersions)]

\* allVersions[allVersions.length - 1]
LatestVersion == allVersions[Len(allVersions)]

\* What one `npm run benchmark` process leaves behind, as runBenchmark
\* sees it: the history file and the exit code. The run fails before it
\* reaches writeReport, or in writeHistory, or after the history is written
\* (report write, restore, final rebuild), or it succeeds.
BenchmarkOutcomes(file, pkg, ts) ==
  UNION {LET entry == MakeEntry(ts, FALSE, m.vapor, m.classic, GetVueVersion(pkg))
             hw == HistoryWriteOutcomes(file, entry)
         IN  {[file |-> file, code |-> 1, wrote |-> FALSE, entry |-> entry]}
               \cup {[file |-> o.file, code |-> 1, wrote |-> o.raised = "none",
                      entry |-> entry] : o \in hw}
               \cup {[file |-> o.file, code |-> 0, wrote |-> TRUE, entry |-> entry] :
                       o \in {x \in hw : x.raised = "none"}} :
         m \in Measurements}

RegistryVersions == {V_350, V_a1, V_a2, V_a10}

\* listings of at most MaxRegistry versions, each once, in any order
InitRegistries ==
  UNION {{w \in [1..n -> RegistryVersions] : \A i, j \in 1..n : i # j => w[i] # w[j]} :
         n \in 0..MaxRegistry}

InitBackfill ==
  /\ RunIdle
  /\ bpc = "discover"
  /\ registry \in InitRegistries
  /\ allVersions = <<>>
  /\ existingVersions = {}
  /\ missingVersions = <<>>
  /\ idx = 0
  /\ results = <<>>
  /\ installs = <<>>
  /\ bexit = -1
  /\ pkgVue = SavedDependency(V_360)
  /\ historyFile \in InitHistoryFiles
  /\ startHistory = historyFile
  /\ written = ReadHistory(historyFile).benchmarks
  /\ now = 1
  /\ CallIdle

\* main().catch: an error that leaves main ends the process with exit(1)
BackfillFails ==
  /\ bpc' = "failed"
  /\ bexit' = 1

\* const allVersions = getAlphaVersionsFromNpm()
GetAlphaVersionsFromNpm ==
  /\ bpc = "discover"
  /\ \/ /\ allVersions' = AlphaVersions(registry)
        /\ bpc' = "existing"
        /\ UNCHANGED bexit
     \/ /\ BackfillFails
        /\ UNCHANGED allVersions
  /\ UNCHANGED <<registry, existingVersions, missingVersions, idx, results, installs>>
  /\ UNCHANGED <<callVars, runVars, envVars>>

\* getExistingVersions, the filter, and the early return when nothing is
\* missing; history.benchmarks.map throws when there is no benchmarks list
FindMissingVersions ==
  /\ bpc = "existing"
  /\ IF ~ReadHistory(historyFile).hasList
       THEN /\ BackfillFails
            /\ UNCHANGED <<existingVersions, missingVersions, idx>>
       ELSE /\ existingVersions' = ExistingVersions(historyFile)
            /\ missingVersions' = MissingVersions(allVersions, existingVersions')
            /\ IF missingVersions' = <<>>
                 THEN bpc' = "done" /\ bexit' = 0 /\ UNCHANGED idx
                 ELSE bpc' = "install" /\ idx' = 1 /\ UNCHANGED bexit
  /\ UNCHANGED <<registry, allVersions, results, installs>>
  /\ UNCHANGED <<callVars, runVars, envVars>>

Install(version, ok) == [version |-> version, ok |-> ok]

\* installVersion(version): in the loop for missingVersions[i], after the
\* loop for the latest version; a failing npm install throws out of main
InstallVersion ==
  /\ bpc \in {"install", "restoreLatest"}
  /\ LET version == IF bpc = "install" THEN missingVersions[idx] ELSE LatestVersion
     IN  \/ /\ pkgVue' = SavedDependency(version)
            /\ installs' = Append(installs, Install(version, TRUE))
            /\ IF bpc = "install"
                 THEN bpc' = "benchmark" /\ UNCHANGED bexit
                 ELSE bpc' = "done" /\ bexit' = 0
         \/ /\ installs' = Append(installs, Install(version, FALSE))
            /\ BackfillFails
            /\ UNCHANGED pkgVue
  /\ UNCHANGED <<registry, allVersions, existingVersions, missingVersions, idx, results>>
  /\ UNCHANGED <<callVars, runVars, historyFile, startHistory, written, now>>

RunBenchmarkUncaught ==
  /\ bpc = "benchmark"
  /\ \E o \in BenchmarkOutcomes(historyFile, pkgVue, now) :
       /\ historyFile' = o.file
       /\ written' = IF o.wrote THEN Append(written, o.entry) ELSE written
       /\ IF o.code = 0
            THEN /\ results' = Append(results, [version |-> missingVersions[idx],
                                                success |-> TRUE])
                 /\ idx' = idx + 1
                 /\ bpc' = IF idx < Len(missingVersions) THEN "install" ELSE "restoreLatest"
                 /\ UNCHANGED bexit
            ELSE /\ BackfillFails
                 /\ UNCHANGED <<results, idx>>
  /\ now' = now + 1
  /\ UNCHANGED <<registry, allVersions, existingVersions, missingVersions, installs>>
  /\ UNCHANGED <<callVars, runVars, pkgVue, startHistory>>

\* const success = runBenchmark(); results.push({ version, success }); i++
\* A failing benchmark process is caught and yields false.
RunBenchmark ==
  /\ bpc = "benchmark"
  /\ \E o \in BenchmarkOutcomes(historyFile, pkgVue, now) :
       /\ historyFile' = o.file
       /\ written' = IF o.wrote THEN Append(written, o.entry) ELSE written
       /\ results' = Append(results, [version |-> missingVersions[idx],
                                      success |-> o.code = 0])
  /\ now' = now + 1
  /\ idx' = idx + 1
  /\ bpc' = IF idx < Len(missingVersions) THEN "install" ELSE "restoreLatest"
  /\ UNCHANGED <<registry, allVersions, existingVersions, missingVersions, installs, bexit>>
  /\ UNCHANGED <<callVars, runVars, pkgVue, startHistory>>

NextBackfill ==
  \/ GetAlphaVersionsFromNpm
  \/ FindMissingVersions
  \/ InstallVersion
  \/ RunBenchmark

SpecBackfill == InitBackfill /\ [][NextBackfill]_vars

\* ------------------------------------------------------------------------
\* Properties of the backfill
\* ------------------------------------------------------------------------

\* the discovered versions: the listed ones of the alpha family
Discovered == {registry[i] : i \in 1..Len(registry)} \cap
              {v \in RegistryVersions : StartsWith(v, AlphaPrefix)}

\* the discovered versions that the history did not hold at the start
ToBackfill == Discovered \ VersionsOf(ReadHistory(startHistory).benchmarks)

\* the greatest discovered version
Greatest == CHOOSE v \in Discovered : \A w \in Discovered : CompareVersions(w, v) <= 0

\* the install that failed was one of the loop, not the final reinstall
LoopInstallFailed ==
  /\ installs # <<>>
  /\ ~installs[Len(installs)].ok
  /\ Len(results) < Len(missingVersions)

\* C8: the versions benchmarked so far are installed first, one install
\* each, in ascending order, none of them in the history at the start; and
\* a backfill that completes has benchmarked exactly the discovered
\* versions that were missing, each once, failed benchmarks included.
C8_BackfillBenchmarksMissingAscending ==
  /\ \A i \in 1..Len(results) :
       /\ results[i].version \in ToBackfill
       /\ Len(installs) >= i
       /\ installs[i] = Install(results[i].version, TRUE)
       /\ \A j \in 1..Len(results) :
            i < j => CompareVersions(results[i].version, results[j].version) < 0
  /\ bpc = "done" =>
       /\ {results[i].version : i \in 1..Len(results)} = ToBackfill
       /\ Len(results) = Cardinality(ToBackfill)

\* a listing out of order, a version skipped because the history holds it,
\* and a failed benchmark followed by a successful one
C8_Witness ==
  /\ bpc = "done"
  /\ Len(registry) = 3
  /\ CompareVersions(registry[1], registry[2]) > 0
  /\ Discovered \cap VersionsOf(ReadHistory(startHistory).benchmarks) # {}
  /\ Len(results) = 2
  /\ ~results[1].success
  /\ results[2].success

\* C9 as claimed: a failure of the install or of the benchmark of one
\* version is recorded as failed with that version and does not abort the
\* batch.
C9_PerVersionFailureRecovered ==
  /\ \A i \in 1..Len(results) : results[i].version = missingVersions[i]
  /\ LoopInstallFailed =>
       /\ bpc # "failed"
       /\ \E i \in 1..Len(results) :
            results[i] = [version |-> installs[Len(installs)].version, success |-> FALSE]

\* C9 as amended: a benchmark failure is recorded as failed with its
\* version and the loop goes on to the next missing version; an install
\* failure ends the backfill at once with exit code 1, with no result
\* recorded for that version.
C9_BenchmarkFailureRecoveredInstallFatal ==
  /\ \A i \in 1..Len(results) :
       /\ results[i].version = missingVersions[i]
       /\ ~results[i].success =>
            \/ Len(results) > i
            \/ bpc = IF i < Len(missingVersions) THEN "install" ELSE "restoreLatest"
            \/ Len(installs) > i
  /\ (bpc = "failed" /\ results # <<>>) => ~installs[Len(installs)].ok
  /\ (bpc = "done" /\ missingVersions # <<>>) => Len(results) = Len(missingVersions)
  /\ LoopInstallFailed =>
       /\ bpc = "failed"
       /\ bexit = 1
       /\ \A i \in 1..Len(results) : results[i].version # installs[Len(installs)].version

\* a benchmark failed, the loop went on, and then an install failed
C9_Witness ==
  /\ LoopInstallFailed
  /\ Len(results) = 2
  /\ ~results[1].success
  /\ bpc = "failed"

\* C10 as claimed: a backfill that has processed a missing version ends
\* with the greatest discovered version as the active dependency, never
\* with an intermediate one.
C10_EndsAtLatest ==
  (bpc \in {"done", "failed"} /\ results # <<>>) => GetVueVersion(pkgVue) = Greatest

\* the version the last successful install left, the initial one without any
LastInstalled ==
  IF \E k \in 1..Len(installs) : installs[k].ok
    THEN SavedDependency(installs[CHOOSE k \in 1..Len(installs) :
                                    /\ installs[k].ok
                                    /\ \A j \in (k + 1)..Len(installs) : ~installs[j].ok].version)
    ELSE SavedDependency(V_360)

\* C10 as amended: a backfill that has processed a missing version and in
\* which no install fails ends with the greatest discovered version
\* installed, by its last install; a backfill ended by a failing install
\* leaves the version of the last successful install.
C10_EndsAtLatestUnlessInstallFails ==
  /\ (bpc = "done" /\ results # <<>>) =>
       /\ installs[Len(installs)] = Install(Greatest, TRUE)
       /\ GetVueVersion(pkgVue) = Greatest
       /\ Len(installs) = Len(results) + 1
  /\ (bpc = "failed" /\ installs # <<>>) =>
       /\ ~installs[Len(installs)].ok
       /\ pkgVue = LastInstalled

\* the backfill is done, a benchmark failed, and the greatest discovered
\* version was not among the missing ones
C10_Witness ==
  /\ bpc = "done"
  /\ results # <<>>
  /\ \E i \in 1..Len(results) : ~results[i].success
  /\ Greatest \notin ToBackfill
  /\ pkgVue = SavedDependency(Greatest)

\* ------------------------------------------------------------------------
\* The benchmark process as the backfill sees it
\* ------------------------------------------------------------------------

\* A benchmark-mode run that has ended left one of the outcomes that
\* BenchmarkOutcomes gives for the history file and package.json it found.
RunMatchesBenchmarkOutcomes ==
  (pc = "exited" /\ ~isInspectMode) =>
    \E o \in BenchmarkOutcomes(startHistory, pkgVue, now) :
      /\ o.file = historyFile
      /\ o.code = exitCode
      /\ o.wrote = Succeeded("writeHistory")
      /\ o.wrote => o.entry = written[Len(written)]

\* ------------------------------------------------------------------------
\* The Version Comparator alone: compareVersions called on three strings
\* ------------------------------------------------------------------------

TagText(tag) ==
  CASE tag = "alpha" -> TagAlpha [] tag = "beta" -> TagBeta [] tag = "rc" -> TagRc

Parts(major, minor, patch, tag, num) ==
  [major |-> major, minor |-> minor, patch |-> patch, tag |-> tag, num |-> num]

\* the version string MAJOR.MINOR.PATCH[-tag.N] that names the parts
VersionText(parts) ==
  ToDigits(parts.major) \o <<".">> \o ToDigits(parts.minor) \o <<".">>
    \o ToDigits(parts.patch)
    \o (IF parts.tag = "none" THEN <<>>
        ELSE <<"-">> \o TagText(parts.tag) \o <<".">> \o ToDigits(parts.num))

ValidParts ==
  {Parts(0, 0, 0, "none", 0), Parts(0, 0, 0, "alpha", 1), Parts(3, 5, 0, "none", 0),
   Parts(3, 6, 0, "alpha", 1), Parts(3, 6, 0, "alpha", 2), Parts(3, 6, 0, "alpha", 10),
   Parts(3, 6, 0, "beta", 1), Parts(3, 6, 0, "beta", 2), Parts(3, 6, 0, "rc", 1),
   Parts(3, 6, 0, "none", 0), Parts(3, 6, 1, "alpha", 1), Parts(3, 10, 0, "none", 0),
   Parts(10, 0, 0, "none", 0)}

\* a valid version string with the parts it names; "03.6.0" names 3.6.0 too
ValidInputs ==
  {[text |-> VersionText(parts), valid |-> TRUE, parts |-> parts] : parts \in ValidParts}
    \cup {[text |-> <<"0">> \o V_360, valid |-> TRUE, parts |-> Parts(3, 6, 0, "none", 0)]}

\* strings that do not match MAJOR.MINOR.PATCH[-(alpha|beta|rc).N]
UnparseableTexts ==
  {Unknown, <<>>, <<"3", ".", "6">>, <<"v">> \o V_360,
   V_360 \o <<"-", "d", "e", "v", ".", "1">>, V_360 \o <<"-">> \o TagAlpha}

UnparseableInputs ==
  {[text |-> t, valid |-> FALSE, parts |-> Parts(0, 0, 0, "none", 0)] :
     t \in UnparseableTexts}

VersionInputs == ValidInputs \cup UnparseableInputs

\* no process runs and nothing is persisted
EnvIdle ==
  /\ pkgVue = NoPackage
  /\ historyFile = FileAbsent
  /\ startHistory = historyFile
  /\ written = <<>>
  /\ now = 1

InitCompare ==
  /\ RunIdle
  /\ BackfillIdle
  /\ EnvIdle
  /\ startFiles = files
  /\ frame \in {<<[a |-> a, b |-> b, c |-> c]>> : a, b, c \in VersionInputs}
  /\ returned = <<>>

\* compareVersions called on each pair of the three strings
CompareVersionsCall ==
  /\ frame # <<>>
  /\ returned = <<>>
  /\ LET a == frame[1].a.text
         b == frame[1].b.text
         c == frame[1].c.text
     IN  returned' = <<[aa |-> CompareVersions(a, a),
                        ab |-> CompareVersions(a, b),
                        ba |-> CompareVersions(b, a),
                        bc |-> CompareVersions(b, c),
                        ac |-> CompareVersions(a, c)]>>
  /\ UNCHANGED <<startFiles, frame>>
  /\ UNCHANGED <<runVars, envVars, backVars>>

NextCompare == CompareVersionsCall

SpecCompare == InitCompare /\ [][NextCompare]_vars

Sign(n) == IF n < 0 THEN -1 ELSE IF n > 0 THEN 1 ELSE 0

\* rank of the prerelease tier: alpha < beta < rc < no prerelease
Tier(tag) ==
  CASE tag = "alpha" -> 1 [] tag = "beta" -> 2 [] tag = "rc" -> 3 [] tag = "none" -> 4

\* the tuple by which versions are ordered
OrderKey(parts) ==
  <<parts.major, parts.minor, parts.patch, Tier(parts.tag), parts.num>>

\* lexicographic comparison of two tuples of numbers of one length: -1, 0 or 1
RECURSIVE LexCompare(_, _)
LexCompare(x, y) ==
  IF x = <<>> THEN 0
  ELSE IF Head(x) < Head(y) THEN -1
  ELSE IF Head(x) > Head(y) THEN 1
  ELSE LexCompare(Tail(x), Tail(y))

\* the three strings compared were all valid version strings
ComparedValid ==
  /\ returned # <<>>
  /\ frame[1].a.valid /\ frame[1].b.valid /\ frame[1].c.valid

\* C11: on valid version strings compare is a strict total order:
\* compare(a,a) = 0, compare(a,b) and compare(b,a) have opposite signs,
\* a < b and b < c give a < c, and compare(a,b) = 0 only for strings that
\* name the same major, minor, patch, prerelease tag and prerelease number.
C11_CompareIsStrictTotalOrder ==
  ComparedValid =>
    /\ returned[1].aa = 0
    /\ Sign(returned[1].ab) = -Sign(returned[1].ba)
    /\ (returned[1].ab < 0 /\ returned[1].bc < 0) => returned[1].ac < 0
    /\ returned[1].ab = 0 => frame[1].a.parts = frame[1].b.parts

\* an alpha, a release candidate and the stable version of 3.6.0 were
\* compared, in ascending order
C11_Witness ==
  /\ ComparedValid
  /\ frame[1].a.parts = Parts(3, 6, 0, "alpha", 10)
  /\ frame[1].b.parts = Parts(3, 6, 0, "rc", 1)
  /\ frame[1].c.text = V_360
  /\ returned[1].ab < 0 /\ returned[1].bc < 0 /\ returned[1].ac < 0
  /\ returned[1].ba > 0

\* C12: on valid version strings the sign of compare(a,b) is the sign of
\* the lexicographic comparison of (major, minor, patch, tier, number),
\* numbers compared numerically and tiers ranked alpha < beta < rc < none.
C12_CompareIsLexicographic ==
  ComparedValid =>
    Sign(returned[1].ab) = LexCompare(OrderKey(frame[1].a.parts), OrderKey(frame[1].b.parts))

\* alpha.2 was compared with alpha.10 and came out smaller
C12_Witness ==
  /\ ComparedValid
  /\ frame[1].a.text = V_a2
  /\ frame[1].b.text = V_a10
  /\ frame[1].c.text = V_b1
  /\ returned[1].ab < 0
  /\ returned[1].bc < 0

\* C13: compare returns -1, 0 or 1.
C13_CompareReturnsSign ==
  returned # <<>> => returned[1].ab \in {-1, 0, 1}

\* a valid version string above 0.0.0
AboveZero(input) ==
  /\ input.valid
  /\ LexCompare(<<input.parts.major, input.parts.minor, input.parts.patch>>, <<0, 0, 0>>) > 0

\* C14: a string that does not match the pattern is parsed as the sentinel
\* {0, 0, 0, none, 0}: it compares as equal to every other such string and
\* to "0.0.0", and as less than every valid version above 0.0.0.
C14_UnparseableIsZeroVersion ==
  (returned # <<>> /\ ~frame[1].a.valid) =>
    /\ ParseVersion(frame[1].a.text) = Sentinel
    /\ returned[1].aa = 0
    /\ ~frame[1].b.valid => (returned[1].ab = 0 /\ returned[1].ba = 0)
    /\ frame[1].b.text = V_000 => (returned[1].ab = 0 /\ returned[1].ba = 0)
    /\ AboveZero(frame[1].b) => (returned[1].ab < 0 /\ returned[1].ba > 0)

\* "unknown" was compared with another unparseable string and with a
\* prerelease above 0.0.0
C14_Witness ==
  /\ returned # <<>>
  /\ frame[1].a.text = Unknown
  /\ ~frame[1].b.valid /\ frame[1].b.text # Unknown
  /\ frame[1].c.text = V_a1
  /\ returned[1].ab = 0
  /\ returned[1].ac < 0


\* ------------------------------------------------------------------------
\* The round trip of the tracked files in a run
\* ------------------------------------------------------------------------

\* restoreSources has run to its end
RestoreEnded == Succeeded("restoreSources")

\* C15: once the restore that follows the classic transform has ended,
\* every tracked file holds the content it held when the run started,
\* whatever that content was.
C15_RestoreReproducesStartup ==
  RestoreEnded => files = startFiles

\* The round trip on text: when every tracked file held valid UTF-8 at
\* startup, the restore leaves the files as they were then.
RoundTripOnText ==
  (RestoreEnded /\ \A f \in TrackedSet : Read(startFiles[f]) = startFiles[f])
    => files = startFiles

\* C17: the entry a run has persisted carries the sizes the run measured
\* and, as delta, Vapor minus Classic for the raw and for the gzipped size;
\* for 58000/21000 against 65000/26000 that is -7000 and -5000.
C17_DeltaIsVaporMinusClassic ==
  Succeeded("writeHistory") =>
    /\ written[Len(written)] \in EntriesOf(Persisted)
    /\ written[Len(written)].vapor = measured[1].vapor
    /\ written[Len(written)].classic = measured[1].classic
    /\ written[Len(written)].delta.raw = measured[1].vapor.raw - measured[1].classic.raw
    /\ written[Len(written)].delta.gzipped
         = measured[1].vapor.gzipped - measured[1].classic.gzipped
    /\ measured[1] = SmallerVapor =>
         written[Len(written)].delta = [raw |-> -7000, gzipped |-> -5000]

\* a benchmark run that measured 58000/21000 and 65000/26000 has ended
\* with its entry in the history file
C17_Witness ==
  /\ pc = "exited"
  /\ exitCode = 0
  /\ ~isInspectMode
  /\ measured = <<SmallerVapor>>
  /\ \E i \in 1..Len(Persisted) :
       /\ Persisted[i].timestamp = now
       /\ Persisted[i].delta = [raw |-> -7000, gzipped |-> -5000]

\* ------------------------------------------------------------------------
\* The persist step of writeHistory, one system call at a time:
\* writeFileSync(path, data) opens the file for writing, which truncates
\* it, writes the data into it and closes it. The process can be
\* terminated between any two of these.
\* ------------------------------------------------------------------------

\* the call of writeHistory that is in progress or was made last
Call(entry, data, before, at) ==
  [entry |-> entry, data |-> data, before |-> before, at |-> at]

\* no call of writeHistory is in progress
NoCallInProgress ==
  IF frame = <<>> THEN TRUE ELSE frame[1].at \in {"returned", "raised", "terminated"}

InitPersist == InitHistory

\* writeHistory(entry) up to the call of writeFileSync: read, filter, push,
\* sort, stringify
WriteHistoryBegin ==
  /\ pc = "off"
  /\ bpc = "off"
  /\ NoCallInProgress
  /\ now <= MaxWrites
  /\ \E v \in WriteVersions :
       LET entry == MakeEntry(now, FALSE, SmallerVapor.vapor, SmallerVapor.classic, v)
           history == ReadHistory(historyFile)
       IN  IF history.hasList
             THEN /\ frame' = <<Call(entry, FileJson(NewBenchmarks(history.benchmarks, entry)),
                                     historyFile, "open")>>
                  /\ UNCHANGED <<err, steps>>
             ELSE /\ frame' = <<Call(entry, historyFile, historyFile, "raised")>>
                  /\ err' = "TypeError"
                  /\ steps' = Append(steps, Step("writeHistory", historyFile.kind, FALSE))
  /\ now' = now + 1
  /\ UNCHANGED <<pc, isInspectMode, files, originals, classicApplied, dist, artifacts,
                 measured, reportFile, exitCode>>
  /\ UNCHANGED <<pkgVue, historyFile, startHistory, written, backVars, startFiles, returned>>

\* writeFileSync opens the file with flag 'w': the file is emptied, or the
\* open is refused and the file stays as it was
WriteFileOpen ==
  /\ frame # <<>>
  /\ frame[1].at = "open"
  /\ \/ /\ historyFile' = FileUnparsable
        /\ frame' = <<[frame[1] EXCEPT !.at = "write"]>>
        /\ UNCHANGED <<err, steps>>
     \/ /\ frame' = <<[frame[1] EXCEPT !.at = "raised"]>>
        /\ err' = "historyWrite"
        /\ steps' = Append(steps, Step("writeHistory", historyFile.kind, FALSE))
        /\ UNCHANGED historyFile
  /\ UNCHANGED <<pc, isInspectMode, files, originals, classicApplied, dist, artifacts,
                 measured, reportFile, exitCode>>
  /\ UNCHANGED <<pkgVue, startHistory, written, now, backVars, startFiles, returned>>

\* writeFileSync writes the data and closes the file, or a write fails
\* (disk full, I/O error) with a part of the data in the file
WriteFileData ==
  /\ frame # <<>>
  /\ frame[1].at = "write"
  /\ \/ /\ historyFile' = frame[1].data
        /\ frame' = <<[frame[1] EXCEPT !.at = "returned"]>>
        /\ written' = Append(written, frame[1].entry)
        /\ err' = "none"
        /\ steps' = Append(steps, Step("writeHistory", frame[1].before.kind, TRUE))
     \/ /\ historyFile' = FileUnparsable
        /\ frame' = <<[frame[1] EXCEPT !.at = "raised"]>>
        /\ err' = "historyWrite"
        /\ steps' = Append(steps, Step("writeHistory", frame[1].before.kind, FALSE))
        /\ UNCHANGED written
  /\ UNCHANGED <<pc, isInspectMode, files, originals, classicApplied, dist, artifacts,
                 measured, reportFile, exitCode>>
  /\ UNCHANGED <<pkgVue, startHistory, now, backVars, startFiles, returned>>

\* the process is terminated while writeFileSync is in progress
Terminated ==
  /\ frame # <<>>
  /\ frame[1].at \in {"open", "write"}
  /\ frame' = <<[frame[1] EXCEPT !.at = "terminated"]>>
  /\ UNCHANGED <<runVars, envVars, backVars, startFiles, returned>>

NextPersist ==
  \/ WriteHistoryBegin
  \/ WriteFileOpen
  \/ WriteFileData
  \/ Terminated

SpecPersist == InitPersist /\ [][NextPersist]_vars

\* C16: at every point during and after a write, a stop in the middle of
\* the persist step included, the history file holds the complete previous
\* history or the complete new one: a read of it yields one of the two.
C16_HistoryFileNeverPartial ==
  frame # <<>> =>
    ReadHistory(historyFile).benchmarks
      \in {ReadHistory(frame[1].before).benchmarks, frame[1].data.benchmarks}

\* ------------------------------------------------------------------------
\* The Report Renderer alone: generateMarkdownReport called on an entry and
\* a history
\* ------------------------------------------------------------------------

\* length of the history given to the renderer
MaxHistory == 12

\* gzipped sizes of the current entry: equal, 10 bytes apart, 5000 apart
CurrentEntries ==
  {MakeEntry(100, inspect, Size(58000, vg), Size(65000, cg), V_360) :
     inspect \in BOOLEAN, vg \in {21000, 21010, 26000}, cg \in {21000, 26000}}

\* the change of the Vapor gzipped size from one entry of a history to
\* the next
HistorySteps == {-101, -100, 0, 100, 101}

\* entry number i of a history whose Vapor size changes by step from entry
\* to entry, whose entries at inspectAt were made in inspect mode, and
\* whose entries were written in the order of their versions (stamp = 1)
\* or in the opposite order, as a backfill of older versions does (stamp = -1)
HistoryEntry(i, step, inspectAt, stamp) ==
  MakeEntry(50 + stamp * i, i \in inspectAt, Size(58000, 21000 + step * i),
            Size(65000, 26000), VersionText(Parts(3, 6, 0, "alpha", i)))

\* histories of n entries, sorted by version as writeHistory leaves them
Histories ==
  UNION {{[i \in 1..n |-> HistoryEntry(i, step, inspectAt, stamp)] :
            step \in HistorySteps, inspectAt \in {{}, {1}, {n}, {2, n - 1}},
            stamp \in {1, -1}} :
         n \in 0..MaxHistory}

InitRender ==
  /\ RunIdle
  /\ BackfillIdle
  /\ EnvIdle
  /\ startFiles = files
  /\ frame \in {<<[current |-> c, benchmarks |-> h]>> : c \in CurrentEntries, h \in Histories}
  /\ returned = <<>>

\* one call generateMarkdownReport(current, history)
GenerateMarkdownReportCall ==
  /\ frame # <<>>
  /\ returned = <<>>
  /\ returned' = <<GenerateMarkdownReport(frame[1].current, frame[1].benchmarks)>>
  /\ UNCHANGED <<startFiles, frame>>
  /\ UNCHANGED <<runVars, envVars, backVars>>

NextRender == GenerateMarkdownReportCall

SpecRender == InitRender /\ [][NextRender]_vars

\* C18: the delta label follows the sign of current.delta.gzipped: 0 gives
\* exactly "0 KB (equal)"; a positive delta gives "+", the magnitude and
\* "Vapor larger"; a negative delta gives the magnitude with no sign and
\* "Vapor smaller". 5000 bytes are written 4.9 KB, 10 bytes 0.0 KB.
C18_DeltaLabelBySign ==
  returned # <<>> =>
    /\ frame[1].current.delta.gzipped = 0 =>
         returned[1].deltaLabel = <<"0 KB (equal)">>
    /\ frame[1].current.delta.gzipped > 0 =>
         /\ Head(returned[1].deltaLabel) = "+"
         /\ SubSeq(returned[1].deltaLabel, Len(returned[1].deltaLabel) - 2,
                   Len(returned[1].deltaLabel)) = <<" (", "Vapor larger", ")">>
    /\ frame[1].current.delta.gzipped < 0 =>
         /\ Head(returned[1].deltaLabel) \in Digits
         /\ \A i \in 1..Len(returned[1].deltaLabel) :
              returned[1].deltaLabel[i] \notin {"+", "-"}
         /\ SubSeq(returned[1].deltaLabel, Len(returned[1].deltaLabel) - 2,
                   Len(returned[1].deltaLabel)) = <<" (", "Vapor smaller", ")">>
    /\ frame[1].current.delta.gzipped = 5000 =>
         returned[1].deltaLabel = <<"+", "4", ".", "9", " KB", " (", "Vapor larger", ")">>
    /\ frame[1].current.delta.gzipped = -5000 =>
         returned[1].deltaLabel = <<"4", ".", "9", " KB", " (", "Vapor smaller", ")">>
    /\ frame[1].current.delta.gzipped = 10 =>
         returned[1].deltaLabel = <<"+", "0", ".", "0", " KB", " (", "Vapor larger", ")">>

\* a report was rendered for Vapor 5000 bytes smaller
C18_Witness ==
  /\ returned # <<>>
  /\ frame[1].current.vapor.gzipped = 21000
  /\ frame[1].current.classic.gzipped = 26000
  /\ returned[1].deltaLabel = <<"4", ".", "9", " KB", " (", "Vapor smaller", ")">>

\* the benchmark-mode entries of the history given to the renderer
BenchmarkEntries ==
  SelectSeq(frame[1].benchmarks, LAMBDA b : b.mode = "benchmark")

\* the entry of the history that row i of the table shows
ShownAt(i) == BenchmarkEntries[Len(BenchmarkEntries) - i + 1]

\* C19: for a current entry not in inspect mode the table has one row for
\* each of the last 10 benchmark-mode entries of the history (for all of
\* them if they are fewer), in the reverse of the order of the history,
\* whatever their timestamps; for a current entry in inspect mode it has
\* no row.
C19_HistoryTableShowsLastTen ==
  returned # <<>> =>
    IF frame[1].current.mode = "inspect"
      THEN returned[1].rows = <<>> /\ ~returned[1].recentHistory
      ELSE /\ Len(returned[1].rows) =
                IF Len(BenchmarkEntries) <= 10 THEN Len(BenchmarkEntries) ELSE 10
           /\ \A i \in 1..Len(returned[1].rows) :
                /\ returned[1].rows[i].date = LocaleDate(ShownAt(i).timestamp)
                /\ returned[1].rows[i].vueVersion = ShownAt(i).vueVersion
                /\ ShownAt(i).mode = "benchmark"

\* a history of more than 10 benchmark-mode entries and an inspect-mode
\* one, the entries of greater versions written earlier, was rendered for
\* a benchmark-mode entry
C19_Witness ==
  /\ returned # <<>>
  /\ frame[1].current.mode = "benchmark"
  /\ Len(BenchmarkEntries) > 10
  /\ Len(BenchmarkEntries) < Len(frame[1].benchmarks)
  /\ Len(returned[1].rows) = 10
  /\ returned[1].rows[1].vueVersion = frame[1].benchmarks[Len(frame[1].benchmarks)].vueVersion
  /\ ShownAt(1).timestamp < ShownAt(2).timestamp

\* C20: every row but the last is labelled by the Vapor gzipped size of
\* its entry minus that of the entry of the next row: below -100
\* Improving, above 100 Regressing, otherwise Stable; the last row has no
\* trend, also when the history holds older entries than the ones shown.
C20_TrendAgainstNextRow ==
  returned # <<>> =>
    \A i \in 1..Len(returned[1].rows) :
      IF i = Len(returned[1].rows)
        THEN returned[1].rows[i].trend = "-"
        ELSE /\ (ShownAt(i).vapor.gzipped - ShownAt(i + 1).vapor.gzipped < -100)
                  <=> returned[1].rows[i].trend = "Improving"
             /\ (ShownAt(i).vapor.gzipped - ShownAt(i + 1).vapor.gzipped > 100)
                  <=> returned[1].rows[i].trend = "Regressing"
             /\ (ShownAt(i).vapor.gzipped - ShownAt(i + 1).vapor.gzipped \in -100..100)
                  <=> returned[1].rows[i].trend = "Stable"

\* a history of more than 10 entries that grow by exactly 100 bytes each
\* was rendered: every row but the last is Stable, the last has no trend
C20_Witness ==
  /\ returned # <<>>
  /\ Len(BenchmarkEntries) > 10
  /\ Len(returned[1].rows) = 10
  /\ ShownAt(1).vapor.gzipped - ShownAt(2).vapor.gzipped = 100
  /\ returned[1].rows[1].trend = "Stable"
  /\ returned[1].rows[10].trend = "-"

\* ------------------------------------------------------------------------
\* The Size Measurer alone: directorySize and gzipDirectorySize called on a
\* directory tree
\* ------------------------------------------------------------------------

\* What a file can hold: its length in bytes (statSync(path).size) and the
\* length of gzipSync of its data, which depends on the data and is 20 for
\* no data at all (the gzip header and trailer).
FileContents ==
  {[data |-> "empty", size |-> 0, gzip |-> 20],
   [data |-> "text100", size |-> 100, gzip |-> 84],
   [data |-> "zeros100", size |-> 100, gzip |-> 24],
   [data |-> "text50", size |-> 50, gzip |-> 61]}

\* one entry of readdirSync(dir, { withFileTypes: true })
File(name, content) ==
  [name |-> name, type |-> "file", content |-> <<content>>, entries |-> <<>>]
Directory(name, entries) ==
  [name |-> name, type |-> "dir", content |-> <<>>, entries |-> entries]
Symlink(name) ==
  [name |-> name, type |-> "symlink", content |-> <<>>, entries |-> <<>>]

\* directorySize without the descent into subdirectories
RECURSIVE DirectorySizeTopLevel(_)
DirectorySizeTopLevel(entries) ==
  IF entries = <<>> THEN 0
  ELSE (IF Head(entries).type = "file" THEN Head(entries).content[1].size ELSE 0)
         + DirectorySizeTopLevel(Tail(entries))

\* directorySize(dir), dir given by its entries
RECURSIVE DirectorySize(_)
DirectorySize(entries) ==
  IF entries = <<>> THEN 0
  ELSE (IF Head(entries).type = "dir" THEN DirectorySize(Head(entries).entries)
        ELSE IF Head(entries).type = "file" THEN Head(entries).content[1].size
        ELSE 0)
         + DirectorySize(Tail(entries))

\* gzipDirectorySize(dir), dir given by its entries
RECURSIVE GzipDirectorySize(_)
GzipDirectorySize(entries) ==
  IF entries = <<>> THEN 0
  ELSE (IF Head(entries).type = "dir" THEN GzipDirectorySize(Head(entries).entries)
        ELSE IF Head(entries).type = "file" THEN Head(entries).content[1].gzip
        ELSE 0)
         + GzipDirectorySize(Tail(entries))

\* The places of a build output at which a file can lie, with their depth:
\* index.html and favicon at the top, assets/app.js one level down,
\* assets/chunks/vendor.js two levels down.
Places == {"index.html", "favicon.ico", "assets/app.js", "assets/chunks/vendor.js"}

\* which files lie where: a place holds a content or nothing (<<>>)
Layouts ==
  [Places -> {<<>>} \cup {<<c>> : c \in FileContents}]

\* the entries of a place: the file that lies there, if any
At(layout, place, name) ==
  IF layout[place] = <<>> THEN <<>> ELSE <<File(name, layout[place][1])>>

\* the tree that holds the files of layout; assets/ and assets/chunks/
\* exist when dirs says so or when a file lies in them; link says whether
\* the top level holds a symbolic link as well
Tree(layout, dirs, link) ==
  LET chunks == At(layout, "assets/chunks/vendor.js", "vendor.js")
      assets == At(layout, "assets/app.js", "app.js")
                  \o (IF dirs \/ chunks # <<>> THEN <<Directory("chunks", chunks)>> ELSE <<>>)
  IN  At(layout, "index.html", "index.html")
        \o (IF dirs \/ assets # <<>> THEN <<Directory("assets", assets)>> ELSE <<>>)
        \o At(layout, "favicon.ico", "favicon.ico")
        \o (IF link THEN <<Symlink("latest")>> ELSE <<>>)

InitMeasure ==
  /\ RunIdle
  /\ BackfillIdle
  /\ EnvIdle
  /\ startFiles = files
  /\ frame \in {<<[layout |-> l, dir |-> Tree(l, dirs, link)]>> :
                  l \in Layouts, dirs \in BOOLEAN, link \in BOOLEAN}
  /\ returned = <<>>

\* directorySize(dir) and gzipDirectorySize(dir) of one tree
DirectorySizeCall ==
  /\ frame # <<>>
  /\ returned = <<>>
  /\ returned' = <<[raw |-> DirectorySize(frame[1].dir),
                    gzipped |-> GzipDirectorySize(frame[1].dir)]>>
  /\ UNCHANGED <<startFiles, frame>>
  /\ UNCHANGED <<runVars, envVars, backVars>>

NextMeasure == DirectorySizeCall

SpecMeasure == InitMeasure /\ [][NextMeasure]_vars

\* the sum of f over the places of S that hold a file
RECURSIVE SumOver(_, _, _)
SumOver(layout, S, field) ==
  IF S = {} THEN 0
  ELSE LET p == CHOOSE x \in S : TRUE
       IN  (IF layout[p] = <<>> THEN 0
            ELSE IF field = "size" THEN layout[p][1].size ELSE layout[p][1].gzip)
             + SumOver(layout, S \ {p}, field)

\* C21: the raw size of a tree is the sum of the lengths of the regular
\* files at every depth, the compressed size the sum of the lengths of
\* their separate compressions; a tree without files gives 0 for both,
\* and one 100-byte and one 50-byte file give a raw size of 150.
C21_SizesSumOverAllFiles ==
  returned # <<>> =>
    /\ returned[1].raw = SumOver(frame[1].layout, Places, "size")
    /\ returned[1].gzipped = SumOver(frame[1].layout, Places, "gzip")
    /\ (\A p \in Places : frame[1].layout[p] = <<>>) =>
         (returned[1].raw = 0 /\ returned[1].gzipped = 0)
    /\ ({frame[1].layout[p] : p \in Places}
          = {<<>>, <<[data |-> "text100", size |-> 100, gzip |-> 84]>>,
             <<[data |-> "text50", size |-> 50, gzip |-> 61]>>}
        /\ Cardinality({p \in Places : frame[1].layout[p] # <<>>}) = 2) =>
         returned[1].raw = 150

\* a tree with a 100-byte file at the top, a 50-byte file two levels down,
\* an empty directory level between them and a symbolic link was measured
C21_Witness ==
  /\ returned # <<>>
  /\ frame[1].layout["index.html"] = <<[data |-> "text100", size |-> 100, gzip |-> 84]>>
  /\ frame[1].layout["favicon.ico"] = <<>>
  /\ frame[1].layout["assets/app.js"] = <<>>
  /\ frame[1].layout["assets/chunks/vendor.js"] = <<[data |-> "text50", size |-> 50, gzip |-> 61]>>
  /\ Len(frame[1].dir) = 3
  /\ returned[1].raw = 150
  /\ returned[1].gzipped = 145

\* ------------------------------------------------------------------------
\* The transform of one component file:
\* write(file, stripVaporAttribute(read(file)))
\* ------------------------------------------------------------------------

\* An opening script tag: whether it carries the marker (setup), and its
\* attributes, each with the number of whitespace characters before it.
Tag(marker, attrs) == [marker |-> marker, attrs |-> attrs]
Attr(ws, name) == [ws |-> ws, name |-> name]

\* the tags a component file is written with; <<>> stands for no tag
TagChoices ==
  {<<>>,
   <<Tag(TRUE, <<>>)>>,
   <<Tag(TRUE, <<Attr(1, "vapor")>>)>>,
   <<Tag(TRUE, <<Attr(1, "lang"), Attr(2, "vapor")>>)>>,
   <<Tag(TRUE, <<Attr(1, "vapor"), Attr(1, "vapor")>>)>>,
   <<Tag(TRUE, <<Attr(2, "vapor"), Attr(1, "lang")>>)>>,
   <<Tag(FALSE, <<Attr(1, "vapor")>>)>>}

\* text in front of the tags: none, or a template that holds the word vapor
TextChoices ==
  {<<>>, <<"<template", ">", " ", "vapor", " ", "</template", ">">>}

\* a component file: text, two places for a script tag, and a last byte
\* that is a letter or a byte that is not valid UTF-8
ComponentSources ==
  [text : TextChoices, first : TagChoices, second : TagChoices, last : {"x", InvalidByte}]

RECURSIVE Spaces(_)
Spaces(n) == IF n = 0 THEN <<>> ELSE <<" ">> \o Spaces(n - 1)

RECURSIVE AttrBytes(_)
AttrBytes(attrs) ==
  IF attrs = <<>> THEN <<>>
  ELSE Spaces(Head(attrs).ws) \o <<Head(attrs).name>> \o AttrBytes(Tail(attrs))

TagBytes(choice) ==
  IF choice = <<>> THEN <<>>
  ELSE <<"<script">> \o (IF choice[1].marker THEN <<" ", "setup">> ELSE <<>>)
         \o AttrBytes(choice[1].attrs) \o <<">">>

\* the bytes of the file that is written with these parts
SourceBytes(src) ==
  src.text \o TagBytes(src.first) \o <<"x">> \o TagBytes(src.second) \o <<src.last>>

InitStrip ==
  /\ RunIdle
  /\ BackfillIdle
  /\ EnvIdle
  /\ startFiles = files
  /\ frame \in {<<[source |-> src, bytes |-> SourceBytes(src)]>> : src \in ComponentSources}
  /\ returned = <<>>

\* the component file after write(file, stripVaporAttribute(read(file)))
TransformComponentCall ==
  /\ frame # <<>>
  /\ returned = <<>>
  /\ returned' = <<ClassicContent(2, frame[1].bytes)>>
  /\ UNCHANGED <<startFiles, frame>>
  /\ UNCHANGED <<runVars, envVars, backVars>>

NextStrip == TransformComponentCall

SpecStrip == InitStrip /\ [][NextStrip]_vars

\* attrs without its first attribute named vapor
RECURSIVE WithoutFirstVapor(_)
WithoutFirstVapor(attrs) ==
  IF attrs = <<>> THEN <<>>
  ELSE IF Head(attrs).name = "vapor" THEN Tail(attrs)
  ELSE <<Head(attrs)>> \o WithoutFirstVapor(Tail(attrs))

HasMarker(choice) == choice # <<>> /\ choice[1].marker

Stripped(choice) == <<Tag(choice[1].marker, WithoutFirstVapor(choice[1].attrs))>>

\* the file with one vapor attribute taken out of its first tag that carries
\* the marker, and nothing else changed
ExpectedSource(src) ==
  IF HasMarker(src.first) THEN [src EXCEPT !.first = Stripped(src.first)]
  ELSE IF HasMarker(src.second) THEN [src EXCEPT !.second = Stripped(src.second)]
  ELSE src

\* the first tag of the file that carries the marker has a vapor attribute
FirstMarkerTagHasVapor(src) ==
  ExpectedSource(src) # src

\* C22: the transform of a component file takes one vapor attribute out of
\* the first opening tag that carries the marker and changes nothing else;
\* a file with no such tag, or whose first such tag has no vapor
\* attribute, is left byte for byte as it was.
C22_StripsOneVaporOfFirstTag ==
  returned # <<>> =>
    /\ returned[1] = SourceBytes(ExpectedSource(frame[1].source))
    /\ ~FirstMarkerTagHasVapor(frame[1].source) => returned[1] = frame[1].bytes

\* The same for a file that is valid UTF-8.
StripOnText ==
  (returned # <<>> /\ frame[1].source.last # InvalidByte) =>
    /\ returned[1] = SourceBytes(ExpectedSource(frame[1].source))
    /\ ~FirstMarkerTagHasVapor(frame[1].source) => returned[1] = frame[1].bytes

\* ------------------------------------------------------------------------
\* The build-output directory and the artifacts during one run
\* ------------------------------------------------------------------------

BuildPositions == {"buildVapor", "buildClassic", "buildFinal"}
CleanPositions == {"cleanVapor", "cleanClassic", "cleanFinal"}
CapturePositions == {"captureVapor", "captureClassic"}

\* a build is about to be invoked
BuildStartsClean == pc \in BuildPositions => dist = DirAbsent

\* cleanDist on an absent directory goes on to the next step without an error
CleanOfAbsentSucceeds ==
  (pc \in CleanPositions /\ dist = DirAbsent) =>
    (pc' = NextPc(pc) /\ err' = err /\ dist' = DirAbsent)

\* a capture that returns has put the whole output directory, and nothing
\* of the artifact that was there, at its label and has left the other
\* label alone
CaptureMovesDist ==
  (pc \in CapturePositions /\ pc' = NextPc(pc)) =>
    /\ dist.kind = "built"
    /\ artifacts' = [artifacts EXCEPT ![CaptureLabel(pc)] = dist]
    /\ dist' = DirAbsent

\* C23: every build of a run starts with the output directory absent,
\* cleaning an absent directory does not fail, and a capture replaces the
\* artifact at its label by the whole output directory, which is gone
\* afterwards.
C23_BuildsStartCleanCaptureMoves ==
  /\ []BuildStartsClean
  /\ [][CleanOfAbsentSucceeds]_vars
  /\ [][CaptureMovesDist]_vars

\* the vapor build has been captured over the artifact of an earlier run,
\* the classic artifact of that run is still there
C23_Witness ==
  /\ pc = "transform"
  /\ artifacts.classic = EarlierArtifact
  /\ artifacts.vapor = DirBuilt(files, BuildScript)
  /\ dist = DirAbsent

\* ------------------------------------------------------------------------
\* What a run that fails has persisted
\* ------------------------------------------------------------------------

\* the run has not touched the history file nor written a report
NothingPersisted ==
  /\ historyFile = startHistory
  /\ reportFile = <<>>
  /\ ~Succeeded("writeHistory")

\* a build, a capture or the measurement of one of the two variants raised
VariantStepFailed ==
  \/ Failed("runBuild", "buildVapor")
  \/ Failed("captureOutput", "captureVapor")
  \/ Failed("runBuild", "buildClassic")
  \/ Failed("captureOutput", "captureClassic")
  \/ Failed("measure", "measure")

\* both variants have been built, captured and measured
VariantsMeasured ==
  /\ \E i \in 1..Len(steps) : steps[i] = Step("runBuild", "buildVapor", TRUE)
  /\ \E i \in 1..Len(steps) : steps[i] = Step("captureOutput", "captureVapor", TRUE)
  /\ \E i \in 1..Len(steps) : steps[i] = Step("runBuild", "buildClassic", TRUE)
  /\ \E i \in 1..Len(steps) : steps[i] = Step("captureOutput", "captureClassic", TRUE)
  /\ \E i \in 1..Len(steps) : steps[i] = Step("measure", "measure", TRUE)

Returned(op, at) ==
  \E i \in 1..Len(steps) : steps[i] = Step(op, at, TRUE)

VaporArtifactFromStartup ==
  Returned("captureOutput", "captureVapor") =>
    artifacts.vapor = DirBuilt(startFiles, BuildScript)

ClassicArtifactFromTransformed ==
  Returned("captureOutput", "captureClassic") =>
    artifacts.classic = DirBuilt(Transformed(startFiles, Len(TrackedFiles)), BuildScript)

\* C25: the artifact captured under the vapor label is a build of the
\* tracked files as they were at startup, the artifact captured under the
\* classic label is a build of the files after the classic transform of
\* all of them, and the output directory a successful run leaves is a
\* build of the files as they were at startup.
C25_BuildsFromTheRightSources ==
  /\ VaporArtifactFromStartup
  /\ ClassicArtifactFromTransformed
  /\ (pc = "exited" /\ exitCode = 0) => dist = DirBuilt(startFiles, BuildScript)

\* The same when every tracked file held valid UTF-8 at startup.
BuildsFromTheRightSourcesOnText ==
  (\A f \in TrackedSet : Read(startFiles[f]) = startFiles[f]) =>
    /\ VaporArtifactFromStartup
    /\ ClassicArtifactFromTransformed
    /\ (pc = "exited" /\ exitCode = 0) => dist = DirBuilt(startFiles, BuildScript)

\* Whatever the files held, the two artifacts are builds of the startup
\* files and of the transformed files, and the output directory left by a
\* successful run is a build of the files as the restore left them.
BuildsFromTheFilesOnDisk ==
  /\ VaporArtifactFromStartup
  /\ ClassicArtifactFromTransformed
  /\ (pc = "exited" /\ exitCode = 0) =>
       /\ dist = DirBuilt(files, BuildScript)
       /\ \A f \in TrackedSet : files[f] = originals[f]

\* ------------------------------------------------------------------------
\* The history a completed backfill leaves
\* ------------------------------------------------------------------------

\* the versions the history file holds now, and held when the backfill began
VersionsNow == VersionsOf(ReadHistory(historyFile).benchmarks)
VersionsBefore == VersionsOf(ReadHistory(startHistory).benchmarks)

\* the versions whose benchmark the backfill recorded as succeeded, as failed
SucceededVersions == {results[i].version : i \in {j \in 1..Len(results) : results[j].success}}
FailedVersions == {results[i].version : i \in {j \in 1..Len(results) : ~results[j].success}}

\* the versions a backfill started now would find missing
RetriedByNextBackfill ==
  LET missing == MissingVersions(allVersions, ExistingVersions(historyFile))
  IN  {missing[i] : i \in 1..Len(missing)}

\* C26: when a backfill completes, the history holds every version it held
\* before and every missing version whose benchmark succeeded, under the
\* version that was installed, and no entry for a missing version whose
\* benchmark failed; a later backfill retries exactly the failed versions.
C26_HistoryAfterBackfill ==
  bpc = "done" =>
    /\ VersionsBefore \subseteq VersionsNow
    /\ SucceededVersions \subseteq VersionsNow
    /\ FailedVersions \cap VersionsNow = {}
    /\ RetriedByNextBackfill = FailedVersions

\* What holds of every completed backfill: nothing the history held is
\* lost, every succeeded version is recorded under its own version string,
\* nothing but benchmarked versions is added, and a later backfill retries
\* only failed versions.
HistoryAfterBackfillKeepsAndAdds ==
  bpc = "done" =>
    /\ VersionsBefore \subseteq VersionsNow
    /\ SucceededVersions \subseteq VersionsNow
    /\ VersionsNow \subseteq VersionsBefore \cup SucceededVersions \cup FailedVersions
    /\ RetriedByNextBackfill \subseteq FailedVersions

====
